---- MODULE Spec2Model ----
(***************************************************************************)
(* Store-operations backend (src/server.js): product catalog with stock,   *)
(* customer orders, order status, served over HTTP by Express handlers     *)
(* that talk to a document store through Mongoose models.                   *)
(*                                                                          *)
(* Every handler is an async function: it runs without interruption up to   *)
(* each `await` of a store operation, and other requests may run between    *)
(* two awaits.  A handler with one store operation is one action; a handler *)
(* with two store operations is two actions joined by an in-flight record.  *)
(***************************************************************************)
EXTENDS Integers, Sequences, FiniteSets, TLC

\* ---------------------------------------------------------------- bounds
MaxProducts == 1        \* product keys the store hands out
MaxOrders == 2          \* orders the store records
MaxRestocks == 1        \* restock calls that reach the store
MaxConc == 2            \* requests suspended at an await at the same time
MaxHistory == 7         \* entries of a conversation history
MaxListed == 2          \* products in the catalog while chat calls and orders run
MaxCatalog == 4         \* products in the catalog of the image attachment
MaxGallery == 2         \* gallery keys the store hands out

\* ------------------------------------------------------- request values
\* An optional JSON number: <<>> when the field is absent, <<n>> when present.
None == <<>>
Some(n) == <<n>>

\* JavaScript `x || d` on an optional number: 0 and undefined are falsy.
OrElse(x, d) == IF x # None /\ x[1] # 0 THEN x[1] ELSE d

\* Mongoose schema default: applies only when the field is undefined.
Default(x, d) == IF x = None THEN d ELSE x[1]

Statuses == {"pending", "confirmed", "delivered", "cancelled"}
Omitted == "<omitted>"  \* the body has no status field
Null == "<null>"        \* JSON null
Bogus == "bogus"        \* any string outside the enum
PlaceStatusInputs == Statuses \cup {Omitted, Bogus}
SetStatusInputs == Statuses \cup {Omitted, Null, Bogus}

\* Keys.  A store key is an ObjectId; 0 stands for a string that is no
\* ObjectId (the cast fails).  A well-formed key references no document
\* before the store hands it out and after the document is deleted.
MalformedKey == 0
ProductKeyInputs == 0 .. MaxProducts
PidInputs == {None} \cup {Some(k) : k \in ProductKeyInputs}
OrderKeyInputs == 0 .. (MaxOrders + 1)
OrderIds == {1, 2}
NoOrderId == 0          \* orderId absent or empty
OrderIdInputs == OrderIds \cup {NoOrderId}
QtyInputs == {None, Some(-1), Some(0), Some(2)}
StockInputs == {None, Some(1)}
CostInputs == {None, Some(0), Some(1)}
AddQtyInputs == {None, Some(0), Some(2)}
AuthHeaders == {"none", "malformed", "invalid", "valid"}
Slots == 1 .. MaxConc
Idle == [op |-> "idle"]

VARIABLES
    products,       \* Product collection: key -> [stock, costPrice]
    nextProductKey, \* the next key the store assigns to a product
    orders,         \* Order collection in insertion order; the index is the key
    inflight,       \* slot -> request suspended between two store operations
    restocks,       \* restock calls that reached the store so far
    last,           \* outcome of the most recent handler step
    gallery,        \* the gallery photos and the next key the store hands out
    chat,           \* the POST /api/chat request under way, if any
    audit           \* history: stock decrements applied by order placements,
                    \* and the stock each product was created with

vars == <<products, nextProductKey, orders, inflight, restocks, last, gallery, chat, audit>>

\* ------------------------------------------------------------ middleware
\* authMiddleware without jwt.verify: every Bearer header passes.
authMiddlewareAnyBearer(h) ==
    IF h \in {"none", "malformed"} THEN "Unauthorized"
    ELSE "next"

\* authMiddleware: "next" when the handler runs, else the 401 message.
authMiddleware(h) ==
    IF h \in {"none", "malformed"} THEN "Unauthorized"
    ELSE IF h = "invalid" THEN "Invalid token"
    ELSE "next"

Reply(op, code) == [op |-> op, code |-> code]
\* a handler step that ends at an await, with no response yet (code 0)
Await == Reply("await", 0)

Init ==
    /\ products = <<>>
    /\ nextProductKey = 1
    /\ orders = <<>>
    /\ inflight = [s \in Slots |-> Idle]
    /\ restocks = 0
    /\ last = Reply("none", 0)
    /\ gallery = [entries |-> {}, next |-> 1]
    /\ chat = Idle
    /\ audit = [decrements |-> 0, stock0 |-> <<>>]

FreeSlots == {s \in Slots : inflight[s] = Idle}
\* the slot a newly suspended request takes
FreeSlot == CHOOSE s \in FreeSlots : \A t \in FreeSlots : s <= t

\* ------------------------------------------------------------- products
\* POST /api/products
CreateProduct(h, hasRequired, stock, costPrice) ==
    /\ nextProductKey <= MaxProducts
    /\ UNCHANGED <<orders, inflight, restocks, gallery, chat>>
    /\ IF authMiddleware(h) # "next"
       THEN /\ last' = Reply("createProduct", 401)
            /\ UNCHANGED <<products, nextProductKey, audit>>
       ELSE IF ~hasRequired
       THEN /\ last' = Reply("createProduct", 500)
            /\ UNCHANGED <<products, nextProductKey, audit>>
       ELSE /\ audit' = [audit EXCEPT !.stock0 =
                             (nextProductKey :> Default(stock, 0)) @@ @]
            /\ products' = (nextProductKey :> [stock |-> Default(stock, 0),
                                               costPrice |-> Default(costPrice, 0)])
                           @@ products
            /\ nextProductKey' = nextProductKey + 1
            /\ last' = Reply("createProduct", 200)

\* DELETE /api/products/:id
DeleteProduct(h, key) ==
    /\ UNCHANGED <<nextProductKey, orders, inflight, restocks, gallery, chat, audit>>
    /\ IF authMiddleware(h) # "next"
       THEN /\ last' = Reply("deleteProduct", 401)
            /\ UNCHANGED products
       ELSE IF key = MalformedKey
       THEN /\ last' = Reply("deleteProduct", 500)
            /\ UNCHANGED products
       ELSE /\ products' = [k \in DOMAIN products \ {key} |-> products[k]]
            /\ last' = Reply("deleteProduct", 200)

\* RestockAssign with the stock replaced by the added quantity instead of
\* increased by it.
RestockAssignOverwrite(doc, addQty, costPrice) ==
    [stock |-> OrElse(addQty, 0),
     costPrice |-> OrElse(costPrice, doc.costPrice)]

\* Restock, the synchronous part between findById and save:
\*   product.stock = (product.stock || 0) + (addQty || 0);
\*   if (costPrice) product.costPrice = costPrice;
RestockAssign(doc, addQty, costPrice) ==
    [stock |-> OrElse(Some(doc.stock), 0) + OrElse(addQty, 0),
     costPrice |-> OrElse(costPrice, doc.costPrice)]

\* product.save() of a loaded document: only the paths whose value differs
\* from the loaded one are written.
SaveProduct(stored, loaded, assigned) ==
    [stock |-> IF assigned.stock # loaded.stock THEN assigned.stock ELSE stored.stock,
     costPrice |-> IF assigned.costPrice # loaded.costPrice
                   THEN assigned.costPrice ELSE stored.costPrice]

\* PATCH /api/products/:id/restock, up to `await Product.findById`
RestockFind(h, key, addQty, costPrice) ==
    /\ UNCHANGED <<products, nextProductKey, orders, gallery, chat, audit>>
    /\ IF authMiddleware(h) # "next"
       THEN /\ last' = [op |-> "restock", code |-> 401, key |-> key,
                        found |-> FALSE]
            /\ UNCHANGED <<inflight, restocks>>
       ELSE IF key = MalformedKey
       THEN /\ last' = [op |-> "restock", code |-> 500, key |-> key,
                        found |-> FALSE]
            /\ UNCHANGED <<inflight, restocks>>
       ELSE IF key \notin DOMAIN products
       THEN /\ last' = [op |-> "restock", code |-> 404, key |-> key,
                        found |-> FALSE]
            /\ UNCHANGED <<inflight, restocks>>
       ELSE /\ restocks < MaxRestocks
            /\ FreeSlots # {}
            /\ restocks' = restocks + 1
            /\ inflight' = [inflight EXCEPT ![FreeSlot] =
                   [op |-> "restock", key |-> key, doc |-> products[key],
                    addQty |-> addQty, costPrice |-> costPrice]]
            /\ last' = Await

\* PATCH /api/products/:id/restock, from `await product.save()` to the response.
\* Saving a document deleted meanwhile writes nothing; whether it throws
\* depends on the Mongoose version, so both outcomes are possible.
RestockSave(s) ==
    /\ inflight[s].op = "restock"
    /\ UNCHANGED <<nextProductKey, orders, restocks, gallery, chat, audit>>
    /\ inflight' = [inflight EXCEPT ![s] = Idle]
    /\ LET r == inflight[s]
           assigned == RestockAssign(r.doc, r.addQty, r.costPrice)
       IN IF r.key \in DOMAIN products
          THEN /\ products' = [products EXCEPT
                      ![r.key] = SaveProduct(@, r.doc, assigned)]
               /\ last' = [op |-> "restock", code |-> 200, key |-> r.key,
                           found |-> TRUE]
          ELSE /\ UNCHANGED products
               /\ \E code \in {200, 500} :
                     last' = [op |-> "restock", code |-> code, key |-> r.key,
                              found |-> TRUE]

\* --------------------------------------------------------------- orders
\* Order.findOne({ orderId }): the key of the order found, 0 when none
findOneByOrderId(orderId) ==
    IF \E i \in 1 .. Len(orders) : orders[i].orderId = orderId
    THEN CHOOSE i \in 1 .. Len(orders) :
            /\ orders[i].orderId = orderId
            /\ \A j \in 1 .. Len(orders) : orders[j].orderId = orderId => i <= j
    ELSE 0

\* GET /api/orders/track/:orderId
Track(orderId) ==
    /\ UNCHANGED <<products, nextProductKey, orders, inflight, restocks, gallery, chat, audit>>
    /\ LET k == findOneByOrderId(orderId)
       IN IF k = 0
          THEN last' = [op |-> "track", code |-> 404]
          ELSE last' = [op |-> "track", code |-> 200, status |-> orders[k].status]

\* new Order(req.body): the document built from the body, schema defaults
\* applied to the fields the body leaves out
NewOrder(orderId, pid, qty, status) ==
    [orderId |-> orderId, pid |-> pid, qty |-> Default(qty, 1),
     status |-> IF status = Omitted THEN "pending" ELSE status]

\* SaveOrder on a collection whose orderId index is not unique.
SaveOrderNoIndex(doc) ==
    IF doc.orderId = NoOrderId \/ doc.status \notin Statuses THEN "ValidationError"
    ELSE "ok"

\* order.save(): validation (orderId required, status within the enum), then
\* the insert, which the unique index on orderId may reject
SaveOrder(doc) ==
    IF doc.orderId = NoOrderId \/ doc.status \notin Statuses THEN "ValidationError"
    ELSE IF \E i \in 1 .. Len(orders) : orders[i].orderId = doc.orderId
    THEN "DuplicateKey"
    ELSE "ok"

\* AfterSave with the try block around the save alone: a rejected save is
\* swallowed and the stock update still runs.
AfterSaveSwallow(outcome, pid) ==
    IF pid # None THEN "adjust"
    ELSE IF outcome # "ok" THEN "catch"
    ELSE "respond"

\* Control flow of POST /api/orders after `await order.save()`: a rejected
\* save lands in the catch block; `if (req.body.product?.id)` guards the
\* stock update.
AfterSave(outcome, pid) ==
    IF outcome # "ok" THEN "catch"
    ELSE IF pid # None THEN "adjust"
    ELSE "respond"

\* $inc: { stock: -(req.body.product.qty || 1) }
StockDelta(qty) == 0 - OrElse(qty, 1)

\* POST /api/orders, up to `await order.save()` (and to the response when no
\* stock update follows)
PlaceOrderSave(orderId, pid, qty, status) ==
    /\ UNCHANGED <<products, nextProductKey, restocks, gallery, chat, audit>>
    /\ LET doc == NewOrder(orderId, pid, qty, status)
           outcome == SaveOrder(doc)
           then == AfterSave(outcome, pid)
       IN /\ IF outcome = "ok"
             THEN /\ Len(orders) < MaxOrders
                  /\ orders' = Append(orders, doc)
             ELSE UNCHANGED orders
          /\ IF then = "adjust"
             THEN /\ FreeSlots # {}
                  /\ inflight' = [inflight EXCEPT ![FreeSlot] =
                         [op |-> "placeOrder", orderId |-> orderId,
                          pid |-> pid, qty |-> qty]]
                  /\ last' = [op |-> "placeOrder", at |-> "save", code |-> 0,
                              err |-> "", orderId |-> orderId]
             ELSE /\ UNCHANGED inflight
                  /\ last' = [op |-> "placeOrder", at |-> "save",
                              code |-> IF then = "catch" THEN 500 ELSE 200,
                              err |-> IF then = "catch" THEN outcome ELSE "",
                              orderId |-> orderId]

\* PlaceOrderAdjust with a compensating step: when the stock update fails the
\* order inserted by this request is removed again.
PlaceOrderAdjustRollback(s) ==
    /\ inflight[s].op = "placeOrder"
    /\ UNCHANGED <<nextProductKey, restocks, gallery, chat>>
    /\ inflight' = [inflight EXCEPT ![s] = Idle]
    /\ LET r == inflight[s]
           key == r.pid[1]
           out == [op |-> "placeOrder", at |-> "adjust", code |-> 200,
                   err |-> "", orderId |-> r.orderId]
       IN IF key = MalformedKey
          THEN /\ UNCHANGED <<products, audit>>
               /\ orders' = SelectSeq(orders, LAMBDA o : o.orderId # r.orderId)
               /\ last' = [out EXCEPT !.code = 500, !.err = "CastError"]
          ELSE IF key \in DOMAIN products
          THEN /\ products' = [products EXCEPT
                      ![key].stock = @ + StockDelta(r.qty)]
               /\ audit' = [audit EXCEPT !.decrements = @ + 1]
               /\ UNCHANGED orders
               /\ last' = out
          ELSE /\ UNCHANGED <<products, audit, orders>>
               /\ last' = out

\* PlaceOrderAdjust with an update of every product instead of the one with
\* the key of the request.
PlaceOrderAdjustEvery(s) ==
    /\ inflight[s].op = "placeOrder"
    /\ UNCHANGED <<nextProductKey, orders, restocks, gallery, chat>>
    /\ inflight' = [inflight EXCEPT ![s] = Idle]
    /\ LET r == inflight[s]
           key == r.pid[1]
           out == [op |-> "placeOrder", at |-> "adjust", code |-> 200,
                   err |-> "", orderId |-> r.orderId]
       IN IF key = MalformedKey
          THEN /\ UNCHANGED <<products, audit>>
               /\ last' = [out EXCEPT !.code = 500, !.err = "CastError"]
          ELSE /\ products' = [k \in DOMAIN products |->
                      [products[k] EXCEPT !.stock = @ + StockDelta(r.qty)]]
               /\ audit' = [audit EXCEPT !.decrements = @ + 1]
               /\ last' = out

\* POST /api/orders, from `await Product.findByIdAndUpdate` to the response
PlaceOrderAdjust(s) ==
    /\ inflight[s].op = "placeOrder"
    /\ UNCHANGED <<nextProductKey, orders, restocks, gallery, chat>>
    /\ inflight' = [inflight EXCEPT ![s] = Idle]
    /\ LET r == inflight[s]
           key == r.pid[1]
           out == [op |-> "placeOrder", at |-> "adjust", code |-> 200,
                   err |-> "", orderId |-> r.orderId]
       IN IF key = MalformedKey
          THEN /\ UNCHANGED <<products, audit>>
               /\ last' = [out EXCEPT !.code = 500, !.err = "CastError"]
          ELSE IF key \in DOMAIN products
          THEN /\ products' = [products EXCEPT
                      ![key].stock = @ + StockDelta(r.qty)]
               /\ audit' = [audit EXCEPT !.decrements = @ + 1]
               /\ last' = out
          ELSE /\ UNCHANGED <<products, audit>>
               /\ last' = out

\* The transitions of the documented order lifecycle.
AllowedTransitions ==
    {<<"pending", "confirmed">>, <<"pending", "cancelled">>,
     <<"confirmed", "delivered">>, <<"confirmed", "cancelled">>}

\* StatusWritten with a transition check: a move outside the lifecycle is
\* dropped.
StatusWrittenChecked(current, status) ==
    IF <<current, status>> \in AllowedTransitions THEN {status} ELSE {current}

\* Order.findByIdAndUpdate(id, { status }, { new: true }): update validators
\* are off, so the value is written as given.  An undefined status is either
\* stripped from the update or written as null, depending on the Mongoose
\* version.
StatusWritten(current, status) ==
    IF status = Omitted THEN {current, Null} ELSE {status}

\* UpdateStatus with the key filter lost: every order is written.
UpdateStatusAll(key, w) ==
    [i \in DOMAIN orders |-> [orders[i] EXCEPT !.status = w]]

\* the write of findByIdAndUpdate: the one document with that key
UpdateStatus(key, w) == [orders EXCEPT ![key].status = w]

\* PATCH /api/orders/:id/status
SetStatus(h, key, status) ==
    /\ UNCHANGED <<products, nextProductKey, inflight, restocks, gallery, chat, audit>>
    /\ IF authMiddleware(h) # "next"
       THEN /\ UNCHANGED orders
            /\ last' = [op |-> "setStatus", code |-> 401, key |-> key,
                        status |-> status, found |-> FALSE, from |-> ""]
       ELSE IF key = MalformedKey
       THEN /\ UNCHANGED orders
            /\ last' = [op |-> "setStatus", code |-> 500, key |-> key,
                        status |-> status, found |-> FALSE, from |-> ""]
       ELSE IF key \notin 1 .. Len(orders)
       THEN /\ UNCHANGED orders
            /\ last' = [op |-> "setStatus", code |-> 200, key |-> key,
                        status |-> status, found |-> FALSE, from |-> ""]
       ELSE /\ \E w \in StatusWritten(orders[key].status, status) :
                  orders' = UpdateStatus(key, w)
            /\ last' = [op |-> "setStatus", code |-> 200, key |-> key,
                        status |-> status, found |-> TRUE,
                        from |-> orders[key].status]

\* Inventory under order placement: products and orders with every product
\* key and quantity.
Next ==
    \/ \E h \in AuthHeaders, r \in BOOLEAN, st \in StockInputs :
          CreateProduct(h, r, st, None)
    \/ \E h \in AuthHeaders, k \in ProductKeyInputs : DeleteProduct(h, k)
    \/ \E o \in OrderIdInputs, p \in PidInputs, q \in QtyInputs :
          PlaceOrderSave(o, p, q, Omitted)
    \/ \E s \in Slots : PlaceOrderAdjust(s)

Spec == Init /\ [][Next]_vars

\* Restock: restocks without and with a valid header, with every key and
\* amount, next to accepted product creations and deletions and the placement
\* of one order on the first product.
NextRestock ==
    \/ \E st \in StockInputs : CreateProduct("valid", TRUE, st, None)
    \/ \E k \in ProductKeyInputs : DeleteProduct("valid", k)
    \/ \E h \in {"none", "valid"}, k \in ProductKeyInputs,
          a \in AddQtyInputs, c \in CostInputs : RestockFind(h, k, a, c)
    \/ \E s \in Slots : RestockSave(s)
    \/ PlaceOrderSave(1, Some(1), None, Omitted)
    \/ \E s \in Slots : PlaceOrderAdjust(s)

SpecRestock == Init /\ [][NextRestock]_vars

\* Order lifecycle: placements with every status value, status updates and
\* tracking.
NextStatus ==
    \/ \E o \in OrderIdInputs, p \in {None, Some(1)}, st \in PlaceStatusInputs :
          PlaceOrderSave(o, p, None, st)
    \/ \E s \in Slots : PlaceOrderAdjust(s)
    \/ \E h \in AuthHeaders, k \in OrderKeyInputs, st \in SetStatusInputs :
          SetStatus(h, k, st)
    \/ \E o \in OrderIdInputs : Track(o)

SpecStatus == Init /\ [][NextStatus]_vars

\* ------------------------------------------- order list and gallery
\* GET /api/orders: reads the orders, changes nothing
ListOrders(h) ==
    /\ UNCHANGED <<products, nextProductKey, orders, inflight, restocks, gallery, chat, audit>>
    /\ last' = Reply("listOrders", IF authMiddleware(h) # "next" THEN 401 ELSE 200)

GalleryKeyInputs == 0 .. MaxGallery

\* POST /api/gallery; castable is FALSE when url or caption cannot be cast
\* to a string, which photo.save() rejects
CreateGallery(h, castable) ==
    /\ gallery.next <= MaxGallery
    /\ UNCHANGED <<products, nextProductKey, orders, inflight, restocks, chat, audit>>
    /\ IF authMiddleware(h) # "next"
       THEN /\ last' = Reply("createGallery", 401)
            /\ UNCHANGED gallery
       ELSE IF ~castable
       THEN /\ last' = Reply("createGallery", 500)
            /\ UNCHANGED gallery
       ELSE /\ gallery' = [entries |-> gallery.entries \cup {gallery.next},
                           next |-> gallery.next + 1]
            /\ last' = Reply("createGallery", 200)

\* DELETE /api/gallery/:id
DeleteGallery(h, key) ==
    /\ UNCHANGED <<products, nextProductKey, orders, inflight, restocks, chat, audit>>
    /\ IF authMiddleware(h) # "next"
       THEN /\ last' = Reply("deleteGallery", 401)
            /\ UNCHANGED gallery
       ELSE IF key = MalformedKey
       THEN /\ last' = Reply("deleteGallery", 500)
            /\ UNCHANGED gallery
       ELSE /\ gallery' = [gallery EXCEPT !.entries = @ \ {key}]
            /\ last' = Reply("deleteGallery", 200)

\* ------------------------------------------------------------------ chat
\* Texts are modelled by the words they hold: a message content is the set of
\* its words, a product name is the sequence of its space-separated words.

\* String.prototype.toLowerCase on the words used here
toLowerCase(w) ==
    CASE w = "Picha" -> "picha"
      [] w = "Photo" -> "photo"
      [] w = "X200" -> "x200"
      [] w = "HP" -> "hp"
      [] w = "Pro" -> "pro"
      [] w = "Envy" -> "envy"
      [] OTHER -> w

\* the strings that occur inside the lower-case word t: t itself and, for
\* "picha", the greeting keyword "hi"
Occurring(t) == IF t = "picha" THEN {"picha", "hi"} ELSE {t}

\* text.includes(k) for a lower-case text
includes(text, k) == \E t \in text : k \in Occurring(t)

\* values of a history entry's content field
Text(words) == [type |-> "string", words |-> words]
NotAString == [type |-> "number"]
NoContent == [type |-> "undefined"]

ContentInputs ==
    {Text({}), Text({"bei"}), Text({"Picha"}), Text({"Photo", "X200"}),
     Text({"picha", "hp"}), Text({"X200"}), Text({"picha", "dell"}),
     NotAString, NoContent}

\* values of req.body.messages
NoMessages == [type |-> "undefined"]
Messages(entries) == [type |-> "array", entries |-> entries]

\* a history of n turns, oldest first, whose most recent content is c
History(n, c) ==
    Messages([i \in 1 .. n |->
                 [role |-> "user", turn |-> i,
                  content |-> IF i = n THEN c ELSE Text({})]])

\* messages[messages.length - 1]?.content
LastContent(messages) ==
    IF messages.type # "array" \/ messages.entries = <<>> THEN NoContent
    ELSE messages.entries[Len(messages.entries)].content

\* content?.toLowerCase() throws when content is neither nullish nor a string
lastUserMsgThrows(messages) == LastContent(messages).type = "number"

\* messages?.[messages.length - 1]?.content?.toLowerCase() || ''
lastUserMsg(messages) ==
    LET c == LastContent(messages)
    IN IF c.type = "string" THEN {toLowerCase(w) : w \in c.words} ELSE {}

\* array.slice(0, n): the first n entries
sliceUpTo(entries, n) ==
    SubSeq(entries, 1, IF Len(entries) < n THEN Len(entries) ELSE n)

\* slice keeping the oldest n entries instead of the most recent ones.
sliceOldest(entries, n) ==
    SubSeq(entries, 1, IF Len(entries) < n THEN Len(entries) ELSE n)

\* messages.slice(-n): the entries from index max(length - n, 0) on
slice(entries, n) ==
    SubSeq(entries,
           (IF Len(entries) - n > 0 THEN Len(entries) - n ELSE 0) + 1,
           Len(entries))

HistoryLimit == 6       \* messages.slice(-6)
ImageLimit == 3         \* .slice(0, 3)

RECURSIVE Ascending(_)
\* the keys of S in the order the store returns documents
Ascending(S) ==
    IF S = {} THEN <<>>
    ELSE LET m == CHOOSE x \in S : \A y \in S : x <= y
         IN <<m>> \o Ascending(S \ {m})

\* the stored documents with the given keys, each with its key
Documents(S) ==
    LET keys == Ascending(S)
    IN [i \in 1 .. Len(keys) |-> [key |-> keys[i]] @@ products[keys[i]]]

\* { stock: { $gt: 0 } }
inStockFilter(p) == p.stock > 0

\* { stock: { $lt: 0 } }: products with stock 0 match neither filter.
outOfStockFilterNegative(p) == p.stock < 0

\* { stock: { $lte: 0 } }
outOfStockFilter(p) == p.stock <= 0

\* Product.find({ stock: { $gt: 0 } })
FindInStock == Documents({k \in DOMAIN products : inStockFilter(products[k])})

\* Product.find({ stock: { $lte: 0 } })
FindOutOfStock == Documents({k \in DOMAIN products : outOfStockFilter(products[k])})

\* one rendered line of a listing
Line(p) == [key |-> p.key, name |-> p.name, price |-> p.price, stock |-> p.stock]

Sentinel(text) == <<[sentinel |-> text]>>

\* inStock.length ? inStock.map(...).join('\n') : 'No products currently in stock.'
inStockList(inStock) ==
    IF Len(inStock) # 0 THEN [i \in 1 .. Len(inStock) |-> Line(inStock[i])]
    ELSE Sentinel("No products currently in stock.")

\* outOfStock.length ? outOfStock.map(...).join('\n') : 'None'
outOfStockList(outOfStock) ==
    IF Len(outOfStock) # 0 THEN [i \in 1 .. Len(outOfStock) |-> Line(outOfStock[i])]
    ELSE Sentinel("None")

\* the system message: the prompt with both listings in it
systemPrompt(inStock, outOfStock) ==
    [role |-> "system", turn |-> 0,
     content |-> [type |-> "prompt",
                  inStockList |-> inStockList(inStock),
                  outOfStockList |-> outOfStockList(outOfStock)]]

\* outcomes of `await fetch(...)` and `await response.json()`
CompletionOutcomes ==
    {"fetchRejects", "jsonRejects", "notOk", "text", "noChoices",
     "nullContent", "emptyContent"}

CompletionThrows(outcome) == outcome \in {"fetchRejects", "jsonRejects"}

CompletionText == "Karibu Ubepari PC!"
FallbackReply == "Sorry, please call 0619066079 for assistance!"
ErrorReply ==
    "Sorry, something went wrong. Please call us on 0619066079 or WhatsApp!"

\* data.choices?.[0]?.message?.content || 'Sorry, please call ...'
replyOf(outcome) == IF outcome = "text" THEN CompletionText ELSE FallbackReply

imageKeywords ==
    {"picture", "photo", "image", "picha", "show me", "nionyeshe",
     "look like", "inaonekana"}

\* wantsImage when every message asks for images.
wantsImageAlways(msg) == TRUE

\* imageKeywords.some(k => lastUserMsg.includes(k))
wantsImage(msg) == \E k \in imageKeywords : includes(msg, k)

\* p.name.toLowerCase().split(' ')[0].toLowerCase()
FirstWord(name) == toLowerCase([i \in DOMAIN name |-> toLowerCase(name[i])][1])

hasImage(p) == p.imageUrl # None

\* matchedProducts comparing the first word as stored, without lower-casing.
matchedProductsCaseSensitive(msg, allProducts) ==
    SelectSeq(allProducts, LAMBDA p : p.name # <<>> /\ includes(msg, p.name[1]))

\* allProducts.filter(p => p.name && lastUserMsg.includes(<first word>))
matchedProducts(msg, allProducts) ==
    SelectSeq(allProducts,
              LAMBDA p : p.name # <<>> /\ includes(msg, FirstWord(p.name)))

\* matchedProducts.length ? matchedProducts : allProducts.filter(p => p.imageUrl)
toShow(msg, allProducts) ==
    LET matched == matchedProducts(msg, allProducts)
    IN IF Len(matched) # 0 THEN matched ELSE SelectSeq(allProducts, hasImage)

\* toShow.filter(p => p.imageUrl).slice(0, 3).map(p => ({ url, name, price }))
imagesOf(shown) ==
    LET withImage == sliceUpTo(SelectSeq(shown, hasImage), ImageLimit)
    IN [i \in 1 .. Len(withImage) |->
           [url |-> withImage[i].imageUrl, name |-> withImage[i].name,
            price |-> withImage[i].price]]

\* let images = []; if (wantsImage) { ... }
images(msg, allProducts) ==
    IF wantsImage(msg) THEN imagesOf(toShow(msg, allProducts)) ELSE <<>>

\* the replies of the keyword revision, in the order of its if/else chain
KeywordReplies ==
    <<[keys |-> {"price", "bei", "cost"}, reply |-> "Our prices vary by product and brand."],
      [keys |-> {"delivery", "deliver", "uwasilishaji"}, reply |-> "We offer FREE delivery to all 26 Tanzania regions!"],
      [keys |-> {"dell"}, reply |-> "We stock a range of Dell laptops and desktops!"],
      [keys |-> {"hp"}, reply |-> "HP products are available!"],
      [keys |-> {"lenovo"}, reply |-> "Lenovo laptops and ThinkPads are in stock!"],
      [keys |-> {"apple", "mac", "macbook"}, reply |-> "We carry Apple/Mac products!"],
      [keys |-> {"payment", "lipa", "malipo"}, reply |-> "Great news! You pay AFTER delivery."],
      [keys |-> {"warranty", "dhamana"}, reply |-> "All our products come with manufacturer warranty."],
      [keys |-> {"location", "address", "mahali", "wapi"}, reply |-> "We are located at Magomeni Mapipa, Dar es Salaam."],
      [keys |-> {"hello", "hi", "habari", "hujambo"}, reply |-> "Hello! Welcome to Ubepari PC!"],
      [keys |-> {"stock", "available", "ipo"}, reply |-> "Check our Products tab to see current stock availability for all brands."],
      [keys |-> {"assembly", "setup", "usanidi"}, reply |-> "Yes! We offer professional PC assembly and setup services."],
      [keys |-> {"recycle", "old", "zamani"}, reply |-> "We accept electronics recycling!"]>>

DefaultReply == "Thanks for your message!"

\* the first branch of the chain whose keyword occurs in the message
KeywordReply(msg) ==
    LET hits == {i \in DOMAIN KeywordReplies :
                    \E k \in KeywordReplies[i].keys : includes(msg, k)}
    IN IF hits = {} THEN DefaultReply
       ELSE KeywordReplies[CHOOSE i \in hits : \A j \in hits : i <= j].reply

\* what a chat call answers: the HTTP status, the reply and the images of the
\* body (no reply field: "", no images field: <<>>), and the completion
\* outcome the call met ("none" when it never called the service)
ChatResponse(code, reply, imgs, completion) ==
    [op |-> "chat", code |-> code, reply |-> reply, images |-> imgs,
     completion |-> completion]

\* catch(e) { res.json({ reply: 'Sorry, something went wrong. ...' }) }
ChatCatch(completion) == ChatResponse(200, ErrorReply, <<>>, completion)

\* POST /api/chat (catalog-grounded revision), up to the first Product.find;
\* chat.catalog remembers the catalog the call started with
ChatFindInStock(messages, storeOk) ==
    /\ chat = Idle
    /\ UNCHANGED <<products, nextProductKey, orders, inflight, restocks, gallery, audit>>
    /\ IF storeOk
       THEN /\ chat' = [op |-> "chat", pc |-> "outOfStock", messages |-> messages,
                        catalog |-> products,
                        inStock |-> FindInStock,
                        outOfStock |-> <<>>, sent |-> <<>>]
            /\ last' = Await
       ELSE /\ chat' = Idle
            /\ last' = ChatCatch("none")

\* ... from the second Product.find to the call of the completion service:
\* both listings, the system prompt and the messages of the request body
ChatFindOutOfStock(storeOk) ==
    /\ chat.op = "chat"
    /\ chat.pc = "outOfStock"
    /\ UNCHANGED <<products, nextProductKey, orders, inflight, restocks, gallery, audit>>
    /\ IF storeOk /\ chat.messages.type = "array"
       THEN /\ chat' = [chat EXCEPT
                   !.pc = "fetch",
                   !.outOfStock = FindOutOfStock,
                   !.sent = <<systemPrompt(chat.inStock, FindOutOfStock)>>
                            \o slice(chat.messages.entries, HistoryLimit)]
            /\ last' = Await
       ELSE /\ chat' = Idle
            /\ last' = ChatCatch("none")

\* ... from the completion to the response: reply, image attachment
ChatComplete(outcome) ==
    /\ chat.op = "chat"
    /\ chat.pc = "fetch"
    /\ UNCHANGED <<products, nextProductKey, orders, inflight, restocks, gallery, audit>>
    /\ chat' = Idle
    /\ IF CompletionThrows(outcome) \/ lastUserMsgThrows(chat.messages)
       THEN last' = ChatCatch(outcome)
       ELSE last' = ChatResponse(200, replyOf(outcome),
                        images(lastUserMsg(chat.messages),
                               chat.inStock \o chat.outOfStock),
                        outcome)

\* POST /api/chat (keyword revision): no store read, no completion call
ChatKeyword(messages) ==
    /\ UNCHANGED <<products, nextProductKey, orders, inflight, restocks, gallery, chat, audit>>
    /\ IF lastUserMsgThrows(messages)
       THEN last' = ChatResponse(500, "", <<>>, "none")
       ELSE last' = ChatResponse(200, KeywordReply(lastUserMsg(messages)), <<>>, "none")

\* a stored product with the fields the chat handler reads
CatalogProduct(k, o) ==
    [name |-> o.name, imageUrl |-> IF o.image THEN Some(k) ELSE None,
     price |-> o.price, stock |-> o.stock, costPrice |-> 0]

\* the catalogs of at most n products built from the given kinds of product
Catalogs(n, kinds) ==
    UNION {{[k \in 1 .. m |-> CatalogProduct(k, f[k])] : f \in [1 .. m -> kinds]} :
           m \in 0 .. n}

\* the server with a catalog created earlier and no request under way
InitCatalog(catalogs) ==
    /\ products \in catalogs
    /\ nextProductKey = Len(products) + 1
    /\ orders = <<>>
    /\ inflight = [s \in Slots |-> Idle]
    /\ restocks = 0
    /\ last = Reply("none", 0)
    /\ gallery = [entries |-> {}, next |-> 1]
    /\ chat = Idle
    /\ audit = [decrements |-> 0,
                stock0 |-> [k \in DOMAIN products |-> products[k].stock]]

StockedKinds ==
    {[name |-> <<"X200", "Pro">>, image |-> TRUE, price |-> 900, stock |-> st] :
        st \in {0, 1}}

ChatContents == {Text({}), Text({"bei"}), Text({"picha", "hp"}), NotAString, NoContent}

MessagesInputs ==
    {NoMessages} \cup {History(n, c) : n \in 0 .. MaxHistory, c \in ChatContents}

\* chat calls of both revisions, with order placements on product 1 running
\* between the steps of a call
NextChat ==
    \/ \E m \in MessagesInputs, ok \in BOOLEAN : ChatFindInStock(m, ok)
    \/ \E ok \in BOOLEAN : ChatFindOutOfStock(ok)
    \/ \E o \in CompletionOutcomes : ChatComplete(o)
    \/ \E m \in MessagesInputs : ChatKeyword(m)
    \/ PlaceOrderSave(1, Some(1), None, Omitted)
    \/ \E s \in Slots : PlaceOrderAdjust(s)

SpecChat == InitCatalog(Catalogs(MaxListed, StockedKinds)) /\ [][NextChat]_vars

PicturedKinds ==
    {[name |-> <<"X200", "Pro">>, image |-> TRUE, price |-> 900, stock |-> st] :
        st \in {0, 1}}
    \cup {[name |-> <<"X200">>, image |-> FALSE, price |-> 800, stock |-> st] :
        st \in {0, 1}}
    \cup {[name |-> <<"HP", "Envy">>, image |-> TRUE, price |-> 700, stock |-> st] :
        st \in {0, 1}}

\* chat calls of the catalog-grounded revision on catalogs with and without
\* image references
NextImages ==
    \/ \E c \in ContentInputs : ChatFindInStock(History(1, c), TRUE)
    \/ ChatFindOutOfStock(TRUE)
    \/ \E o \in CompletionOutcomes : ChatComplete(o)

SpecImages == InitCatalog(Catalogs(MaxCatalog, PicturedKinds)) /\ [][NextImages]_vars

\* headers that authMiddleware must turn away
RejectedHeaders == AuthHeaders \ {"valid"}

ProtectedOps ==
    {"createProduct", "deleteProduct", "restock", "setStatus", "listOrders",
     "createGallery", "deleteGallery"}

\* the server with a catalog and one gallery photo stored earlier
InitAuth ==
    /\ products \in Catalogs(MaxListed, StockedKinds)
    /\ nextProductKey = Len(products) + 1
    /\ orders = <<>>
    /\ inflight = [s \in Slots |-> Idle]
    /\ restocks = 0
    /\ last = Reply("none", 0)
    /\ gallery = [entries |-> {1}, next |-> 2]
    /\ chat = Idle
    /\ audit = [decrements |-> 0,
                stock0 |-> [k \in DOMAIN products |-> products[k].stock]]

\* every bearer-protected route called without a valid token, next to public
\* order placements
NextAuth ==
    \/ \E h \in RejectedHeaders, r \in BOOLEAN, st \in StockInputs :
          CreateProduct(h, r, st, None)
    \/ \E h \in RejectedHeaders, k \in ProductKeyInputs : DeleteProduct(h, k)
    \/ \E h \in RejectedHeaders, k \in ProductKeyInputs,
          a \in AddQtyInputs, c \in CostInputs : RestockFind(h, k, a, c)
    \/ \E h \in RejectedHeaders, k \in OrderKeyInputs, st \in SetStatusInputs :
          SetStatus(h, k, st)
    \/ \E h \in RejectedHeaders : ListOrders(h)
    \/ \E h \in RejectedHeaders, c \in BOOLEAN : CreateGallery(h, c)
    \/ \E h \in RejectedHeaders, k \in GalleryKeyInputs : DeleteGallery(h, k)
    \/ \E o \in OrderIdInputs : PlaceOrderSave(o, None, None, Omitted)

SpecAuth == InitAuth /\ [][NextAuth]_vars

\* product keys of a placement on a stored catalog: none, malformed, or the
\* key of a product
ListedPidInputs == {None} \cup {Some(k) : k \in 0 .. MaxListed}

\* order placements alone, of every quantity, on a stored catalog
NextPlace ==
    \/ \E o \in OrderIdInputs, p \in ListedPidInputs, q \in QtyInputs :
          PlaceOrderSave(o, p, q, Omitted)
    \/ \E s \in Slots : PlaceOrderAdjust(s)

SpecPlace == InitCatalog(Catalogs(MaxListed, StockedKinds)) /\ [][NextPlace]_vars

\* ------------------------------------------------------------ properties

\* C1: an accepted order placement that references an existing product leaves
\* the product's stock at its previous value minus the requested quantity, an
\* omitted quantity counting as 1, for every requested quantity.
C1_StockMinusRequestedQty ==
    [][\A s \in Slots :
          (/\ inflight[s].op = "placeOrder"
           /\ inflight'[s] = Idle
           /\ last'.code = 200
           /\ inflight[s].pid[1] \in DOMAIN products)
          => LET key == inflight[s].pid[1]
             IN /\ key \in DOMAIN products'
                /\ products'[key].stock =
                       products[key].stock - Default(inflight[s].qty, 1)]_vars

\* C2: a placement whose orderId is already used by a recorded order fails,
\* changes no product and no order, and starts no stock decrement.
C2_DuplicateOrderIdNoSideEffect ==
    [][(/\ last'.op = "placeOrder"
        /\ last'.at = "save"
        /\ \E i \in 1 .. Len(orders) : orders[i].orderId = last'.orderId)
       => (/\ last'.code = 500
           /\ products' = products
           /\ orders' = orders
           /\ inflight' = inflight)]_vars

\* a duplicate placement was rejected while a product with stock exists
C2_Witness ==
    /\ last.op = "placeOrder"
    /\ last.err = "DuplicateKey"
    /\ \E k \in DOMAIN products : products[k].stock = 1

\* C3: a restock of an existing product with no other request between its read
\* and its write succeeds, adds addQty (0 when omitted) to the stock, and sets
\* the cost price to the supplied value exactly when a non-zero one was
\* supplied, else leaves it.
C3_RestockAddsAndSetsCost ==
    [][\A s \in Slots :
          (/\ inflight[s].op = "restock"
           /\ inflight'[s] = Idle
           /\ inflight[s].key \in DOMAIN products
           /\ products[inflight[s].key] = inflight[s].doc)
          => LET r == inflight[s]
                 new == products'[r.key]
             IN /\ last'.code = 200
                /\ new.stock = r.doc.stock + Default(r.addQty, 0)
                /\ new.costPrice = IF r.costPrice \in {None, Some(0)}
                                   THEN r.doc.costPrice ELSE r.costPrice[1]]_vars

\* a restock with a quantity and a non-zero cost price went through
C3_Witness ==
    /\ last.op = "restock"
    /\ last.code = 200
    /\ \E k \in DOMAIN products :
          products[k].stock = 3 /\ products[k].costPrice = 1

\* C4 (as stated in the specification): the status of a recorded order changes only along the
\* transitions of the lifecycle; delivered and cancelled never change.
C4_OnlyLifecycleTransitions ==
    [][\A i \in 1 .. Len(orders) :
          orders'[i].status # orders[i].status
          => <<orders[i].status, orders'[i].status>> \in AllowedTransitions]_vars

\* C4 (amended): no order is removed, and the status of a recorded order
\* changes only in a successful setStatus call on that order, which writes the
\* requested value (null when the body names none) whatever the current status.
C4_StatusChangesOnlyBySetStatus ==
    [][/\ Len(orders') >= Len(orders)
       /\ \A i \in 1 .. Len(orders) :
             orders'[i].status # orders[i].status
             => /\ last'.op = "setStatus"
                /\ last'.code = 200
                /\ last'.found
                /\ last'.key = i
                /\ orders'[i].status =
                       IF last'.status = Omitted THEN Null ELSE last'.status]_vars

\* a delivered order was moved back to pending
C4_Witness ==
    /\ last.op = "setStatus"
    /\ last.found
    /\ last.from = "delivered"
    /\ last.status = "pending"
    /\ orders[last.key].status = "pending"

\* C5: every order is pending right after its placement, whatever the body.
C5_NewOrderIsPending ==
    [][Len(orders') > Len(orders)
       => orders'[Len(orders')].status = "pending"]_vars

\* C6: after a setStatus call on an existing order with one of the four
\* statuses, tracking the order by its orderId returns that status.
C6_SetStatusThenTrack ==
    (/\ last.op = "setStatus"
     /\ last.code = 200
     /\ last.found
     /\ last.status \in Statuses)
    => LET k == findOneByOrderId(orders[last.key].orderId)
       IN k # 0 /\ orders[k].status = last.status

\* the second of two orders was moved from cancelled to confirmed
C6_Witness ==
    /\ last.op = "setStatus"
    /\ last.code = 200
    /\ last.found
    /\ last.key = 2
    /\ last.from = "cancelled"
    /\ last.status = "confirmed"

\* C7: the status of every recorded order is one of the four statuses.
C7_StatusInEnum ==
    \A i \in 1 .. Len(orders) : orders[i].status \in Statuses

\* C8: no two recorded orders have the same orderId, and of the placements
\* suspended after their insert no two carry the same orderId and each has its
\* order recorded: of two concurrent placements with one orderId at most one
\* gets past the insert.
C8_OrderIdsUnique ==
    /\ \A i, j \in 1 .. Len(orders) :
          orders[i].orderId = orders[j].orderId => i = j
    /\ \A s, t \in Slots :
          (/\ inflight[s].op = "placeOrder"
           /\ inflight[t].op = "placeOrder"
           /\ inflight[s].orderId = inflight[t].orderId) => s = t
    /\ \A s \in Slots :
          inflight[s].op = "placeOrder"
          => \E i \in 1 .. Len(orders) : orders[i].orderId = inflight[s].orderId

\* a placement was rejected as a duplicate of one still in flight
C8_Witness ==
    /\ last.op = "placeOrder"
    /\ last.err = "DuplicateKey"
    /\ \E s \in Slots :
          inflight[s].op = "placeOrder" /\ inflight[s].orderId = last.orderId

\* C9: a setStatus call that passes the middleware and whose key references
\* no recorded order answers 404.
C9_SetStatusUnknownIsNotFound ==
    (last.op = "setStatus" /\ last.code # 401 /\ ~last.found)
    => last.code = 404

\* C10: a restock call that passes the middleware and whose key references
\* no existing product answers 404.
C10_RestockUnknownIsNotFound ==
    (last.op = "restock" /\ last.code # 401 /\ ~last.found)
    => last.code = 404

\* C11: a placement whose product key references no existing product is not
\* reported as a success.
C11_UnknownProductIsNotSuccess ==
    [][\A s \in Slots :
          (/\ inflight[s].op = "placeOrder"
           /\ inflight'[s] = Idle
           /\ inflight[s].pid[1] \notin DOMAIN products)
          => last'.code # 200]_vars

\* C12: when the insert of a placement succeeded and its stock update then
\* fails, the call answers 500, the order stays recorded and no product
\* changes; and no step ever removes or replaces a recorded order.
C12_FailedAdjustKeepsOrder ==
    [][/\ \A s \in Slots :
             (/\ inflight[s].op = "placeOrder"
              /\ inflight'[s] = Idle
              /\ last'.err # "")
             => (/\ last'.code = 500
                 /\ products' = products
                 /\ orders' = orders
                 /\ \E i \in 1 .. Len(orders') :
                        orders'[i].orderId = inflight[s].orderId)
       /\ Len(orders') >= Len(orders)
       /\ \A i \in 1 .. Len(orders) : orders'[i].orderId = orders[i].orderId]_vars

\* a stock update failed, its order is recorded and a product exists
C12_Witness ==
    /\ last.op = "placeOrder"
    /\ last.at = "adjust"
    /\ last.code = 500
    /\ \E i \in 1 .. Len(orders) : orders[i].orderId = last.orderId
    /\ DOMAIN products # {}

\* recorded orders that reference a product
OrdersWithProduct == {i \in 1 .. Len(orders) : orders[i].pid # None}

\* C13: the stock decrement of a placement is applied only after its order
\* was inserted: the decrements applied by placements never outnumber the
\* recorded orders that reference a product.
C13_DecrementsAtMostOrders ==
    audit.decrements <= Cardinality(OrdersWithProduct)

\* every recorded order references a product and has had its decrement
C13_Witness ==
    /\ audit.decrements = MaxOrders
    /\ Cardinality(OrdersWithProduct) = MaxOrders

\* C14: once two placements with distinct orderIds on the same existing
\* product have both completed their stock update, whatever their
\* interleaving and whatever the stock, the product's stock is the stock it
\* was created with minus the sum of the two requested quantities.
C14_TwoPlacementsSubtractSum ==
    \A k \in DOMAIN products :
        (/\ Len(orders) = 2
         /\ orders[1].pid = Some(k)
         /\ orders[2].pid = Some(k)
         /\ \A s \in Slots : inflight[s] = Idle
         /\ audit.decrements = 2)
        => products[k].stock =
               audit.stock0[k] - (orders[1].qty + orders[2].qty)

\* C15: every chat call answers with status 200 and a non-empty reply, and a
\* call that met a failure answers with one of the fixed fallback strings.
C15_ChatAlwaysReplies ==
    last.op = "chat"
    => (/\ last.code = 200
        /\ last.reply # ""
        /\ last.completion \notin {"text", "none"}
               => last.reply \in {FallbackReply, ErrorReply})

\* C16: the messages sent to the completion service are the system message
\* followed by the last min(6, n) of the n history entries, in their order.
C16_SentIsSystemThenLastSix ==
    (chat.op = "chat" /\ chat.pc = "fetch")
    => LET entries == chat.messages.entries
           n == Len(entries)
           m == IF n < 6 THEN n ELSE 6
       IN /\ Len(chat.sent) = m + 1
          /\ chat.sent[1].role = "system"
          /\ \A i \in 1 .. m : chat.sent[i + 1] = entries[n - m + i]

\* a history longer than six entries has been sent
C16_Witness ==
    /\ chat.op = "chat"
    /\ chat.pc = "fetch"
    /\ Len(chat.messages.entries) > HistoryLimit

\* C17: when the most recent message asks for images and the catalog read
\* by the call has images to attach for it, the response carries them also
\* when the completion answers a non-success status or raises an exception.
C17_ImagesWhateverTheCompletion ==
    [][(/\ chat.op = "chat"
        /\ chat.pc = "fetch"
        /\ chat' = Idle
        /\ last'.completion \in {"notOk", "fetchRejects", "jsonRejects"}
        /\ images(lastUserMsg(chat.messages), chat.inStock \o chat.outOfStock) # <<>>)
       => last'.images =
              images(lastUserMsg(chat.messages), chat.inStock \o chat.outOfStock)]_vars

\* the image records of the documents docs, in order
ImagesAre(imgs, docs) ==
    /\ Len(imgs) = Len(docs)
    /\ \A i \in 1 .. Len(docs) :
          /\ imgs[i].url = docs[i].imageUrl
          /\ imgs[i].url # None
          /\ imgs[i].name = docs[i].name
          /\ imgs[i].price = docs[i].price

\* the products read by the call whose name's first word, in lower case,
\* occurs in the most recent message; all products with an image reference
\* when there is none
NamedOrPictured ==
    LET all == chat.inStock \o chat.outOfStock
        msg == lastUserMsg(chat.messages)
        named == SelectSeq(all, LAMBDA p : includes(msg, toLowerCase(p.name[1])))
    IN IF named # <<>> THEN named
       ELSE SelectSeq(all, LAMBDA p : p.imageUrl # None)

\* a chat call answers from the completion, its most recent message holding
\* an image keyword
AnswersImageRequest ==
    /\ chat.op = "chat"
    /\ chat.pc = "fetch"
    /\ chat' = Idle
    /\ last'.completion \notin {"fetchRejects", "jsonRejects"}
    /\ \E k \in imageKeywords : includes(lastUserMsg(chat.messages), k)

C19_NoKeywordNoImages ==
    [][(/\ last'.op = "chat"
        /\ chat.op = "chat"
        /\ chat' = Idle
        /\ \A k \in imageKeywords : ~includes(lastUserMsg(chat.messages), k))
       => last'.images = <<>>]_vars

\* a call answered from the completion without images although every product
\* has an image reference: its message held no image keyword
C19_Witness ==
    /\ last.op = "chat"
    /\ last.completion = "text"
    /\ last.images = <<>>
    /\ DOMAIN products # {}
    /\ \A k \in DOMAIN products : products[k].imageUrl # None

\* the product keys rendered in a listing
ListedKeys(listing) ==
    {listing[i].key : i \in {j \in DOMAIN listing : "key" \in DOMAIN listing[j]}}

\* C20: when the catalog is the one the call started with, every product is
\* rendered once, in the in-stock listing if its stock is above 0 and in the
\* out-of-stock listing otherwise, and a listing without product is its
\* sentinel.
C20_ListingsPartitionCatalog ==
    (chat.op = "chat" /\ chat.pc = "fetch" /\ chat.catalog = products)
    => LET prompt == chat.sent[1].content
           inList == prompt.inStockList
           outList == prompt.outOfStockList
           Count(listing, k) ==
               Cardinality({i \in DOMAIN listing :
                               "key" \in DOMAIN listing[i] /\ listing[i].key = k})
       IN /\ \A k \in DOMAIN products :
                IF products[k].stock > 0
                THEN Count(inList, k) = 1 /\ Count(outList, k) = 0
                ELSE Count(inList, k) = 0 /\ Count(outList, k) = 1
          /\ ListedKeys(inList) \cup ListedKeys(outList) = DOMAIN products
          /\ IF ListedKeys(inList) = {}
             THEN inList = <<[sentinel |-> "No products currently in stock."]>>
             ELSE \A i \in DOMAIN inList : "key" \in DOMAIN inList[i]
          /\ IF ListedKeys(outList) = {}
             THEN outList = <<[sentinel |-> "None"]>>
             ELSE \A i \in DOMAIN outList : "key" \in DOMAIN outList[i]

\* the prompt of a call on an unchanged catalog lists one product in stock
\* and one out of stock
C20_Witness ==
    /\ chat.op = "chat"
    /\ chat.pc = "fetch"
    /\ chat.catalog = products
    /\ \E k \in DOMAIN products : products[k].stock > 0
    /\ \E k \in DOMAIN products : products[k].stock <= 0

\* C21: a request to a bearer-protected route without a valid token is
\* answered 401 and changes nothing: no product, no recorded order, no
\* gallery photo changes and no request is left under way.
C21_RejectedRequestsChangeNothing ==
    [][/\ last'.op \in ProtectedOps
          => (/\ last'.code = 401
              /\ UNCHANGED <<products, nextProductKey, orders, inflight,
                             restocks, gallery>>)
       /\ products' = products
       /\ gallery' = gallery
       /\ \A i \in 1 .. Len(orders) : orders'[i] = orders[i]]_vars

\* a restock of an existing product was turned away while an order, a
\* product and a gallery photo exist
C21_Witness ==
    /\ last.op = "restock"
    /\ last.code = 401
    /\ last.key \in DOMAIN products
    /\ Len(orders) > 0
    /\ gallery.entries # {}

\* C22: a step of an order placement changes at most the stock of the product
\* its product key references: no product appears or disappears, every other
\* field of every product and every recorded order stay as they were.
C22_PlacementFrame ==
    [][last'.op = "placeOrder"
       => (/\ DOMAIN products' = DOMAIN products
           /\ \A k \in DOMAIN products :
                 /\ [products'[k] EXCEPT !.stock = products[k].stock] = products[k]
                 /\ products'[k].stock # products[k].stock
                       => \E s \in Slots :
                             /\ inflight[s].op = "placeOrder"
                             /\ inflight'[s] = Idle
                             /\ inflight[s].pid = Some(k)
           /\ \A i \in 1 .. Len(orders) : orders'[i] = orders[i])]_vars

\* the second of two placements has decremented one of two products
C22_Witness ==
    /\ last.op = "placeOrder"
    /\ last.at = "adjust"
    /\ last.code = 200
    /\ Len(orders) = 2
    /\ orders[2].orderId = last.orderId
    /\ orders[2].pid[1] \in DOMAIN products
    /\ audit.decrements > 0
    /\ Cardinality(DOMAIN products) = 2

\* C23: a restock and an order placement on the same product lose neither
\* update, whatever their interleaving: the write of the restock adds addQty
\* to the stock it finds in the store and the decrement of the placement
\* subtracts the ordered quantity from the stock it finds, so that after both
\* the stock is the initial stock plus addQty minus the ordered quantity.
C23_RestockAndOrderBothCount ==
    [][\A s \in Slots :
          /\ (/\ inflight[s].op = "restock"
              /\ inflight'[s] = Idle
              /\ inflight[s].key \in DOMAIN products)
             => products'[inflight[s].key].stock =
                    products[inflight[s].key].stock + Default(inflight[s].addQty, 0)
          /\ (/\ inflight[s].op = "placeOrder"
              /\ inflight'[s] = Idle
              /\ inflight[s].pid[1] \in DOMAIN products)
             => products'[inflight[s].pid[1]].stock =
                    products[inflight[s].pid[1]].stock - Default(inflight[s].qty, 1)]_vars

\* C24: in the prompt of a chat call every product that exists for the whole
\* call is rendered exactly once over the two listings, also when the stock
\* of the product changed between the two catalog reads.
C24_ListedOnceDespiteWrites ==
    (chat.op = "chat" /\ chat.pc = "fetch")
    => LET prompt == chat.sent[1].content
           Lines(listing, k) ==
               {i \in DOMAIN listing :
                   "key" \in DOMAIN listing[i] /\ listing[i].key = k}
       IN \A k \in DOMAIN chat.catalog \cap DOMAIN products :
             Cardinality(Lines(prompt.inStockList, k))
               + Cardinality(Lines(prompt.outOfStockList, k)) = 1

\* C25: the stock update of an accepted placement on an existing product
\* lowers the stock by the quantity stored in the order it recorded.
C25_DecrementIsStoredQty ==
    [][\A s \in Slots :
          (/\ inflight[s].op = "placeOrder"
           /\ inflight'[s] = Idle
           /\ inflight[s].pid[1] \in DOMAIN products)
          => \E i \in 1 .. Len(orders) :
                /\ orders[i].orderId = inflight[s].orderId
                /\ products[inflight[s].pid[1]].stock
                     - products'[inflight[s].pid[1]].stock = orders[i].qty]_vars

\* C26: a placement never raises a stock: every recorded order has a quantity
\* of at least 1, and the stock update of a placement on an existing product
\* lowers its stock.
C26_PlacementLowersStock ==
    [][last'.op = "placeOrder"
       => (/\ \A i \in 1 .. Len(orders') : orders'[i].qty >= 1
           /\ \A k \in DOMAIN products : products'[k].stock <= products[k].stock
           /\ \A s \in Slots :
                 (/\ inflight[s].op = "placeOrder"
                  /\ inflight'[s] = Idle
                  /\ inflight[s].pid[1] \in DOMAIN products)
                 => products'[inflight[s].pid[1]].stock
                      < products[inflight[s].pid[1]].stock)]_vars

====
